---------------------------- MODULE Spec2Model ----------------------------
(***************************************************************************)
(* MinexPy-GUI: the two temporary stores (uploaded datasets, generated     *)
(* result CSVs), their TTL expiry, and the request-triggered expiry sweep. *)
(*                                                                         *)
(* Threads: "main" runs create_app (the startup sweeps); the workers each  *)
(* serve one request at a time (before_request gate, then the handler).    *)
(* Every filesystem call of the source is one step, so that requests       *)
(* interleave between any two filesystem calls, and the clock may advance  *)
(* between any two steps.                                                  *)
(***************************************************************************)
EXTENDS Integers, Sequences, FiniteSets, TLC

VARIABLES
    clock,                   \* time.time(), in whole seconds
    datasets,                \* DATASET_STORAGE_DIR: stem -> file, the *.pkl files
    metas,                   \* DATASET_STORAGE_DIR: stem -> file, the *.json files
    results,                 \* RESULT_STORAGE_DIR:  stem -> file, the *.csv files
    last_result_cleanup_at,  \* app.extensions["last_result_cleanup_at"]
    pc,                      \* thread -> position in the code
    req,                     \* thread -> the request being served
    gate,                    \* thread -> locals of _cleanup_expired_result_files
    cr,                      \* thread -> frame of cleanup_expired
    cd,                      \* thread -> frame of cleanup_expired_datasets
    ld,                      \* thread -> frame of load_dataset / load_result_csv
    out,                     \* thread -> what the running call returned or raised
    served,                  \* number of requests accepted so far
    saved_ds,                \* history: dataset id -> what save_dataset wrote
    saved_rs,                \* history: result id -> what save_result wrote
    swept,                   \* history: store -> the last sweep that began on it
    nc                       \* frame of _normalize_columns

vars == <<clock, datasets, metas, results, last_result_cleanup_at, pc, req, gate,
          cr, cd, ld, out, served, saved_ds, saved_rs, swept, nc>>

-----------------------------------------------------------------------------
(* Bounds of the model *)

\* time.time() when the process starts (seconds since the epoch, scaled down;
\* it exceeds every configured interval).
BootTime == 10
\* The clock advances at most this many seconds after boot.
MaxTicks == 2
\* Requests accepted after startup.
MaxRequests == 2

(* Configuration (create_app reads it from the environment) *)

RESULT_TTL_SECONDS == 1
RESULT_CLEANUP_INTERVAL_SECONDS == 2

Workers == {"w1", "w2"}
Threads == {"main"} \cup Workers

-----------------------------------------------------------------------------
(* Identifiers: strings are sequences of characters *)

IdLen == 32
HexDigits == {"0", "1", "2", "3", "4", "5", "6", "7", "8", "9",
              "a", "b", "c", "d", "e", "f"}
Whitespace == {" ", "\n", "\t", "\r"}

Hex32(c) == [i \in 1..IdLen |-> c]

\* re.compile(r"^[0-9a-f]{32}$").match(s): "$" matches at the end of the string
\* and also just before a newline that ends the string.
PatternMatch(s) ==
    /\ Len(s) >= IdLen
    /\ \A i \in 1..IdLen : s[i] \in HexDigits
    /\ \/ Len(s) = IdLen
       \/ Len(s) = IdLen + 1 /\ s[IdLen + 1] = "\n"

\* str.strip(): drops leading and trailing whitespace.
RECURSIVE LStrip(_)
LStrip(s) == IF s # <<>> /\ Head(s) \in Whitespace THEN LStrip(Tail(s)) ELSE s
RECURSIVE RStrip(_)
RStrip(s) == IF s # <<>> /\ s[Len(s)] \in Whitespace
             THEN RStrip(SubSeq(s, 1, Len(s) - 1)) ELSE s
Strip(s) == RStrip(LStrip(s))

\* uuid.uuid4().hex yields 32 lowercase hex digits; the ids it draws in the model.
UuidPool == {Hex32("a"), Hex32("b")}
\* The id of the files a previous process may have left behind.
LeftoverId == Hex32("c")

\* The ids a client may send: well-formed ones, a well-formed one followed by a
\* newline, upper-case hex, short path-like text, the empty string.
RequestIds ==
    UuidPool \cup {LeftoverId}
    \cup {Hex32("a") \o <<"\n">>, Hex32("A"), <<".", ".", "/", "x">>, <<>>}

-----------------------------------------------------------------------------
(* Files and their contents *)

DefaultFilename == "uploaded_file"

\* What a client uploads: the parsed table and the file's name
\* (parse_uploaded_file rejects a blank name, so the name is never empty).
Uploads == {[df |-> <<"df1">>, name |-> "in.csv"],
            [df |-> <<"df2">>, name |-> "data.xlsx"]}

\* A request without a file, or with one parse_uploaded_file rejects.
NoUpload == [df |-> <<>>, name |-> ""]

File(t, d) == [mtime |-> t, data |-> d]

\* DataFrame.to_pickle / pd.read_pickle
ToPickle(df) == <<"pickle">> \o df
IsPickle(d) == d[1] = "pickle"
ReadPickle(d) == Tail(d)

\* json.dumps({"source_filename": ...}) / json.loads(...).get("source_filename")
JsonDumps(name) == <<"json", name>>
\* A JSON object without the key "source_filename".
JsonNoKey == <<"json">>
IsJson(d) == d[1] = "json"
\* Variant: the key read is not the key written.
JsonSourceFilename_WrongKey(d) == ""
\* An object without the key yields None, which "or" treats like "".
JsonSourceFilename(d) == IF Len(d) >= 2 THEN d[2] ELSE ""

\* run_statistical_summary_for_columns / DataFrame.to_csv(index=False)
Summary(df) == <<"summary">> \o df
ToCsv(df) == <<"csv">> \o df

Corrupt == <<"garbage">>

\* Variant of unlink: the file is not removed.
Unlink_Kept(dir, stem) == dir

\* Path.unlink(missing_ok=True)
Unlink(dir, stem) == [s \in DOMAIN dir \ {stem} |-> dir[s]]
WriteFile(dir, stem, f) == [s \in DOMAIN dir \cup {stem} |-> IF s = stem THEN f ELSE dir[s]]
NoFiles == [s \in {} |-> File(0, Corrupt)]

\* Variants of _is_expired: a file never expires; a file lives one second too
\* long; a file expires one second too early.
IsExpired_Never(now, mtime, ttl) == FALSE
IsExpired_Late(now, mtime, ttl) == (now - mtime) > ttl + 1
IsExpired_Early(now, mtime, ttl) == (now - mtime) >= ttl

\* _is_expired: (time.time() - path.stat().st_mtime) > ttl_seconds
IsExpired(now, mtime, ttl) == (now - mtime) > ttl


-----------------------------------------------------------------------------
(* Frames of the running calls *)

NoTimes == [s \in {} |-> 0]
Put(f, k, v) == [s \in DOMAIN f \cup {k} |-> IF s = k THEN v ELSE f[s]]

\* began: the time a sweep listed the store; trigger: the time its trigger sampled;
\* dirty: a save has written to the store since.
NeverSwept == [began |-> -1, trigger |-> -1, dirty |-> FALSE]

NoReq == [kind |-> "none", id |-> <<>>, upload |-> NoUpload]
NoGate == [now |-> 0, last_run |-> 0]
\* listed: the paths glob returned; todo: those the loop has not reached; cur: the
\* one being deleted; count: deleted_count.  History of the call: began (the time
\* of the listing), snap / snap_meta (the directory as listed), seen_at (when
\* _is_expired examined each file), prev (the sweep of this store before it).
NoSweep == [listed |-> {}, todo |-> {}, cur |-> <<>>, count |-> 0,
            began |-> 0, snap |-> NoFiles, snap_meta |-> NoFiles,
            seen_at |-> NoTimes, prev |-> NeverSwept]
\* id: the validated id; t_check / st_mtime: what _is_expired read; t0: the time
\* of the call.
NoLoad == [id |-> <<>>, t0 |-> 0, t_check |-> 0, st_mtime |-> 0]
\* status: the HTTP status of the response (0: none yet); exc / raised_in: the
\* exception in flight and the function that raised it; payload, name: what a load
\* returned; id: what a save returned.
NoOut == [status |-> 0, exc |-> "none", raised_in |-> "none",
          payload |-> <<>>, name |-> "", id |-> <<>>]

\* columns: the argument; idx: the position enumerate has reached (from 0);
\* cleaned, seen: the list and the dict of the function; returned: it has returned
\* cleaned.
NoCounts == [s \in {} |-> 0]
NoNorm == [columns |-> <<>>, idx |-> 0, cleaned |-> <<>>, seen |-> NoCounts,
           returned |-> FALSE]

Raise(e, fn) == [NoOut EXCEPT !.exc = e, !.raised_in = fn]
Respond(o, code) == [o EXCEPT !.status = code]

-----------------------------------------------------------------------------
(* The state when create_app has configured the app (__init__.py line 42) *)

\* What a previous process may have left behind: nothing; a dataset and a result
\* it had only just saved; an expired dataset and an expired result; an
\* unreadable pickle without metadata; a dataset at the end of its TTL and an
\* expired result.
OldFile(age, d) == Put(NoFiles, LeftoverId, File(BootTime - age, d))

\* A readable dataset can have lost its metadata, or have metadata that is not
\* JSON, lacks the key, or holds an empty name.
DamagedMeta == {NoFiles, OldFile(0, Corrupt), OldFile(0, JsonNoKey), OldFile(0, JsonDumps(""))}

\* ds / rs: what the previous process's save_dataset / save_result had written.
Leftovers ==
    LET ttl == RESULT_TTL_SECONDS
        pkl == ToPickle(<<"df0">>)
        js  == JsonDumps("old.csv")
        csv == ToCsv(Summary(<<"df0">>))
        ds(age) == Put(NoFiles, LeftoverId, [df |-> <<"df0">>, name |-> "old.csv",
                                             at |-> BootTime - age, returned |-> TRUE])
        rs(age) == Put(NoFiles, LeftoverId, [data |-> csv, at |-> BootTime - age])
    IN { [pkl |-> NoFiles, meta |-> NoFiles, csv |-> NoFiles,
          ds |-> NoFiles, rs |-> NoFiles],
         [pkl |-> OldFile(0, pkl), meta |-> OldFile(0, js), csv |-> OldFile(0, csv),
          ds |-> ds(0), rs |-> rs(0)],
         [pkl |-> OldFile(ttl + 1, pkl), meta |-> OldFile(ttl + 1, js),
          csv |-> OldFile(ttl + 1, csv), ds |-> ds(ttl + 1), rs |-> rs(ttl + 1)],
         [pkl |-> OldFile(ttl, Corrupt), meta |-> NoFiles, csv |-> NoFiles,
          ds |-> NoFiles, rs |-> NoFiles],
         [pkl |-> OldFile(ttl, pkl), meta |-> OldFile(ttl, js),
          csv |-> OldFile(ttl + 1, csv), ds |-> ds(ttl), rs |-> rs(ttl + 1)] }
       \cup { [pkl |-> OldFile(0, pkl), meta |-> m, csv |-> NoFiles,
                ds |-> NoFiles, rs |-> NoFiles] : m \in DamagedMeta }

Init ==
    /\ clock = BootTime
    /\ \E l \in Leftovers :
        /\ datasets = l.pkl /\ metas = l.meta /\ results = l.csv
        /\ saved_ds = l.ds /\ saved_rs = l.rs
    /\ last_result_cleanup_at = 0
    /\ pc = [t \in Threads |-> IF t = "main" THEN "cr_list" ELSE "idle"]
    /\ req = [t \in Threads |-> NoReq]
    /\ gate = [t \in Threads |-> NoGate]
    /\ cr = [t \in Threads |-> NoSweep]
    /\ cd = [t \in Threads |-> NoSweep]
    /\ ld = [t \in Threads |-> NoLoad]
    /\ out = [t \in Threads |-> NoOut]
    /\ served = 0
    /\ swept = [results |-> NeverSwept, datasets |-> NeverSwept]
    /\ nc = NoNorm

-----------------------------------------------------------------------------
(* time.time() advances *)

Tick ==
    /\ clock < BootTime + MaxTicks
    /\ clock' = clock + 1
    /\ UNCHANGED <<nc, datasets, metas, results, last_result_cleanup_at, pc, req, gate,
                   cr, cd, ld, out, served, saved_ds, saved_rs, swept>>

-----------------------------------------------------------------------------
(* cleanup_expired (result_store.py) *)

\* for ... in glob(...): when no path is left the sweep returns deleted_count, and
\* the caller goes on: to cleanup_expired_datasets after cleanup_expired; after
\* cleanup_expired_datasets, to the end of create_app or to the gate's last line.
AfterCr(t, todo) == IF todo = {} THEN "cd_list" ELSE "cr_loop"
AfterCd(t, todo) ==
    IF todo # {} THEN "cd_loop" ELSE IF t = "main" THEN "ready" ELSE "gate_write"

\* The time the sweep trigger sampled: the gate's now, or the time of the call
\* for the startup sweep.
TriggerTime(t) == IF t = "main" THEN clock ELSE gate[t].now

\* storage_path.glob("*.csv"): the directory is listed once, before the loop.
CrList(t) ==
    /\ pc[t] = "cr_list"
    /\ cr' = [cr EXCEPT ![t] = [NoSweep EXCEPT !.listed = DOMAIN results,
                                               !.todo = DOMAIN results,
                                               !.began = clock,
                                               !.snap = results,
                                               !.prev = swept.results]]
    /\ swept' = [swept EXCEPT !.results =
                    [began |-> clock, trigger |-> TriggerTime(t), dirty |-> FALSE]]
    /\ pc' = [pc EXCEPT ![t] = AfterCr(t, DOMAIN results)]
    /\ UNCHANGED <<nc, clock, datasets, metas, results, last_result_cleanup_at, req, gate,
                   cd, ld, out, served, saved_ds, saved_rs>>

\* if _is_expired(file_path, ttl_seconds): path.stat() raises FileNotFoundError
\* when the file has gone since the listing; nothing catches it.
CrExamine(t) ==
    /\ pc[t] = "cr_loop"
    /\ \E f \in cr[t].todo :
        IF f \notin DOMAIN results
        THEN /\ pc' = [pc EXCEPT ![t] = "raised"]
             /\ out' = [out EXCEPT ![t] = Raise("FileNotFoundError", "cleanup_expired")]
             /\ cr' = cr
        ELSE IF IsExpired(clock, results[f].mtime, RESULT_TTL_SECONDS)
        THEN /\ pc' = [pc EXCEPT ![t] = "cr_unlink"]
             /\ cr' = [cr EXCEPT ![t].cur = f, ![t].seen_at = Put(@, f, clock)]
             /\ out' = out
        ELSE /\ pc' = [pc EXCEPT ![t] = AfterCr(t, cr[t].todo \ {f})]
             /\ cr' = [cr EXCEPT ![t].todo = @ \ {f},
                                 ![t].seen_at = Put(@, f, clock)]
             /\ out' = out
    /\ UNCHANGED <<nc, clock, datasets, metas, results, last_result_cleanup_at, req, gate,
                   cd, ld, served, saved_ds, saved_rs, swept>>

\* file_path.unlink(missing_ok=True); deleted_count += 1
CrUnlink(t) ==
    /\ pc[t] = "cr_unlink"
    /\ results' = Unlink(results, cr[t].cur)
    /\ cr' = [cr EXCEPT ![t].todo = @ \ {cr[t].cur},
                        ![t].count = @ + 1]
    /\ pc' = [pc EXCEPT ![t] = AfterCr(t, cr[t].todo \ {cr[t].cur})]
    /\ UNCHANGED <<nc, clock, datasets, metas, last_result_cleanup_at, req, gate,
                   cd, ld, out, served, saved_ds, saved_rs, swept>>

-----------------------------------------------------------------------------
(* cleanup_expired_datasets (dataset_store.py) *)

\* storage_path.glob("*.pkl")
CdList(t) ==
    /\ pc[t] = "cd_list"
    /\ cd' = [cd EXCEPT ![t] = [NoSweep EXCEPT !.listed = DOMAIN datasets,
                                               !.todo = DOMAIN datasets,
                                               !.began = clock,
                                               !.snap = datasets,
                                               !.snap_meta = metas,
                                               !.prev = swept.datasets]]
    /\ swept' = [swept EXCEPT !.datasets =
                    [began |-> clock, trigger |-> TriggerTime(t), dirty |-> FALSE]]
    /\ pc' = [pc EXCEPT ![t] = AfterCd(t, DOMAIN datasets)]
    /\ UNCHANGED <<nc, clock, datasets, metas, results, last_result_cleanup_at, req, gate,
                   cr, ld, out, served, saved_ds, saved_rs>>

\* if _is_expired(dataset_path, ttl_seconds)
CdExamine(t) ==
    /\ pc[t] = "cd_loop"
    /\ \E f \in cd[t].todo :
        IF f \notin DOMAIN datasets
        THEN /\ pc' = [pc EXCEPT ![t] = "raised"]
             /\ out' = [out EXCEPT ![t] =
                           Raise("FileNotFoundError", "cleanup_expired_datasets")]
             /\ cd' = cd
        ELSE IF IsExpired(clock, datasets[f].mtime, RESULT_TTL_SECONDS)
        THEN /\ pc' = [pc EXCEPT ![t] = "cd_unlink_pkl"]
             /\ cd' = [cd EXCEPT ![t].cur = f, ![t].seen_at = Put(@, f, clock)]
             /\ out' = out
        ELSE /\ pc' = [pc EXCEPT ![t] = AfterCd(t, cd[t].todo \ {f})]
             /\ cd' = [cd EXCEPT ![t].todo = @ \ {f},
                                 ![t].seen_at = Put(@, f, clock)]
             /\ out' = out
    /\ UNCHANGED <<nc, clock, datasets, metas, results, last_result_cleanup_at, req, gate,
                   cr, ld, served, saved_ds, saved_rs, swept>>

\* _safe_unlink(dataset_path)
CdUnlinkPkl(t) ==
    /\ pc[t] = "cd_unlink_pkl"
    /\ datasets' = Unlink(datasets, cd[t].cur)
    /\ pc' = [pc EXCEPT ![t] = "cd_unlink_meta"]
    /\ UNCHANGED <<nc, clock, metas, results, last_result_cleanup_at, req, gate,
                   cr, cd, ld, out, served, saved_ds, saved_rs, swept>>

\* Variant: the sweep counts the dataset without unlinking its metadata.
CdUnlinkMeta_Skip(t) ==
    /\ pc[t] = "cd_unlink_meta"
    /\ cd' = [cd EXCEPT ![t].todo = @ \ {cd[t].cur},
                        ![t].count = @ + 1]
    /\ pc' = [pc EXCEPT ![t] = AfterCd(t, cd[t].todo \ {cd[t].cur})]
    /\ UNCHANGED <<nc, clock, datasets, metas, results, last_result_cleanup_at, req, gate,
                   cr, ld, out, served, saved_ds, saved_rs, swept>>

\* _safe_unlink(_meta_path(storage_path, dataset_id)); deleted_count += 1
CdUnlinkMeta(t) ==
    /\ pc[t] = "cd_unlink_meta"
    /\ metas' = Unlink(metas, cd[t].cur)
    /\ cd' = [cd EXCEPT ![t].todo = @ \ {cd[t].cur},
                        ![t].count = @ + 1]
    /\ pc' = [pc EXCEPT ![t] = AfterCd(t, cd[t].todo \ {cd[t].cur})]
    /\ UNCHANGED <<nc, clock, datasets, results, last_result_cleanup_at, req, gate,
                   cr, ld, out, served, saved_ds, saved_rs, swept>>

-----------------------------------------------------------------------------
(* time.time() advances without bound *)

\* The last second the clock of the model shows.  Beyond it time still passes:
\* the clock stays and every time kept anywhere moves one second into the past.
Horizon == BootTime + MaxTicks
\* A time this far back is older than the TTL and than the cleanup interval,
\* whatever the clock shows; it is not moved further.
Floor ==
    Horizon - (1 + IF RESULT_TTL_SECONDS > RESULT_CLEANUP_INTERVAL_SECONDS
                   THEN RESULT_TTL_SECONDS ELSE RESULT_CLEANUP_INTERVAL_SECONDS)
Old(x) == IF x > Floor THEN x - 1 ELSE x
OldFiles(dir) == [s \in DOMAIN dir |-> [dir[s] EXCEPT !.mtime = Old(@)]]
OldSaved(h) == [s \in DOMAIN h |-> [h[s] EXCEPT !.at = Old(@)]]
OldMark(m) == [m EXCEPT !.began = Old(@), !.trigger = Old(@)]
OldSweep(f) ==
    [f EXCEPT !.began = Old(@), !.snap = OldFiles(@), !.snap_meta = OldFiles(@),
              !.seen_at = [s \in DOMAIN f.seen_at |-> Old(f.seen_at[s])],
              !.prev = OldMark(@)]
OldLoad(l) == [l EXCEPT !.t0 = Old(@), !.t_check = Old(@), !.st_mtime = Old(@)]
OldGate(g) == [g EXCEPT !.now = Old(@), !.last_run = Old(@)]

\* A second passes beyond the horizon.  (Not while a gate holds a sampled now it
\* has not compared yet: the two lines run within the same second.)
TickOn ==
    /\ clock = Horizon
    /\ \A t \in Threads : pc[t] # "gate_read"
    /\ datasets' = OldFiles(datasets)
    /\ metas' = OldFiles(metas)
    /\ results' = OldFiles(results)
    /\ last_result_cleanup_at' = Old(last_result_cleanup_at)
    /\ gate' = [t \in Threads |-> OldGate(gate[t])]
    /\ cr' = [t \in Threads |-> OldSweep(cr[t])]
    /\ cd' = [t \in Threads |-> OldSweep(cd[t])]
    /\ ld' = [t \in Threads |-> OldLoad(ld[t])]
    /\ saved_ds' = OldSaved(saved_ds)
    /\ saved_rs' = OldSaved(saved_rs)
    /\ swept' = [results |-> OldMark(swept.results), datasets |-> OldMark(swept.datasets)]
    /\ UNCHANGED <<nc, clock, pc, req, out, served>>

-----------------------------------------------------------------------------
(* create_app returns; app.run starts serving requests *)

AppRun ==
    /\ pc["main"] = "ready"
    /\ pc' = [pc EXCEPT !["main"] = "serving"]
    /\ cr' = [cr EXCEPT !["main"] = NoSweep]
    /\ cd' = [cd EXCEPT !["main"] = NoSweep]
    /\ UNCHANGED <<nc, clock, datasets, metas, results, last_result_cleanup_at, req, gate,
                   ld, out, served, saved_ds, saved_rs, swept>>


-----------------------------------------------------------------------------
(* A request arrives: before_request, then the route's handler *)

\* <result_id> in the download route matches a non-empty segment without "/".
DownloadIds == {s \in RequestIds : s # <<>> /\ \A i \in 1..Len(s) : s[i] # "/"}

\* A client cannot guess an id uuid4 will draw: of UuidPool it sends only ids a
\* save has returned (as they are, or padded with whitespace).
KnownIds == {i \in DOMAIN saved_ds : saved_ds[i].returned} \cup DOMAIN saved_rs
ClientIds(ids) == {i \in ids : Strip(i) \in UuidPool => Strip(i) \in KnownIds}

Requests ==
    {[NoReq EXCEPT !.kind = "home"]}
    \cup {[NoReq EXCEPT !.kind = "upload", !.upload = u] : u \in Uploads \cup {NoUpload}}
    \cup {[NoReq EXCEPT !.kind = "statistics", !.id = i] : i \in ClientIds(RequestIds)}
    \cup {[NoReq EXCEPT !.kind = "download", !.id = i] : i \in ClientIds(DownloadIds)}

\* Variant of uuid4: an id is drawn again once its files are gone.
FreshIds_Reused == UuidPool \ (DOMAIN datasets \cup DOMAIN results)

\* The ids uuid4 has not produced yet.
FreshIds == UuidPool \ (DOMAIN saved_ds \cup DOMAIN saved_rs)

\* A request in flight that will still draw an id from uuid4.
WillDraw(w) ==
    \/ req[w].kind = "upload" /\ pc[w] = "sd_write_pkl"
    \/ req[w].kind = "statistics" /\ pc[w] \notin {"idle", "respond", "raised"}

\* A request arrives and a free worker takes it (the first free one: workers are
\* alike).  before_request runs before the route's handler sees the request.
BeginRequest(w) ==
    /\ pc["main"] = "serving"
    /\ pc[w] = "idle"
    /\ \A v \in Workers : (v # w /\ pc[v] = "idle") => w = "w1"
    /\ served < MaxRequests
    /\ served' = served + 1
    /\ pc' = [pc EXCEPT ![w] = "gate_now"]
    /\ UNCHANGED <<nc, clock, datasets, metas, results, last_result_cleanup_at, req, gate,
                   cr, cd, ld, out, saved_ds, saved_rs, swept>>

\* Requests keep arriving after the ones the model counts.
NextRequest(w) ==
    /\ pc["main"] = "serving"
    /\ pc[w] = "idle"
    /\ \A v \in Workers : (v # w /\ pc[v] = "idle") => w = "w1"
    /\ served = MaxRequests
    /\ pc' = [pc EXCEPT ![w] = "gate_now"]
    /\ UNCHANGED <<nc, clock, datasets, metas, results, last_result_cleanup_at, req, gate,
                   cr, cd, ld, out, served, saved_ds, saved_rs, swept>>

\* An exception leaves a load: the handler's except clause turns the store's own
\* NotFound error (caught) into a 404; any other exception propagates.
\* DatasetNotFoundError and ResultNotFoundError are subclasses of
\* FileNotFoundError, so a plain FileNotFoundError is not caught.
Raised(exc, fn, caught) ==
    IF exc = caught THEN Respond(Raise(exc, fn), 404) ELSE Raise(exc, fn)
RaisedPc(exc, caught) == IF exc = caught THEN "respond" ELSE "raised"

\* The handler up to its first filesystem call.
\* upload_dataset: 400 when no file was sent or parse_uploaded_file rejects it.
\* generate_statistics: dataset_id = (form["dataset_id"] or "").strip(); 400 if
\* empty; load_dataset resolves the paths (_resolve_dataset_path,
\* _resolve_meta_path: the pattern decides).  download_statistics:
\* load_result_csv resolves the path (_resolve_result_path).
HandlerPc(r) ==
    CASE r.kind = "home" -> "respond"
      [] r.kind = "upload" -> IF r.upload = NoUpload THEN "respond" ELSE "sd_write_pkl"
      [] r.kind = "statistics" ->
            IF Strip(r.id) = <<>> THEN "respond"
            ELSE IF PatternMatch(Strip(r.id)) THEN "ld_exists"
            ELSE RaisedPc("DatasetNotFoundError", "DatasetNotFoundError")
      [] r.kind = "download" ->
            IF PatternMatch(r.id) THEN "lr_exists"
            ELSE RaisedPc("ResultNotFoundError", "ResultNotFoundError")

HandlerOut(r) ==
    CASE r.kind = "home" -> Respond(NoOut, 200)
      [] r.kind = "upload" -> IF r.upload = NoUpload THEN Respond(NoOut, 400) ELSE NoOut
      [] r.kind = "statistics" ->
            IF Strip(r.id) = <<>> THEN Respond(NoOut, 400)
            ELSE IF PatternMatch(Strip(r.id)) THEN NoOut
            ELSE Raised("DatasetNotFoundError", "load_dataset", "DatasetNotFoundError")
      [] r.kind = "download" ->
            IF PatternMatch(r.id) THEN NoOut
            ELSE Raised("ResultNotFoundError", "load_result_csv", "ResultNotFoundError")
      [] OTHER -> NoOut

HandlerLoad(r, now) ==
    CASE r.kind = "statistics" /\ Strip(r.id) # <<>> ->
            [NoLoad EXCEPT !.id = Strip(r.id), !.t0 = now]
      [] r.kind = "download" -> [NoLoad EXCEPT !.id = r.id, !.t0 = now]
      [] OTHER -> NoLoad

\* now = time.time()
GateNow(w) ==
    /\ pc[w] = "gate_now"
    /\ gate' = [gate EXCEPT ![w].now = clock]
    /\ pc' = [pc EXCEPT ![w] = "gate_read"]
    /\ UNCHANGED <<nc, clock, datasets, metas, results, last_result_cleanup_at, req,
                   cr, cd, ld, out, served, saved_ds, saved_rs, swept>>

\* Variant of the gate: it never fires.
GateRead_Never(w) ==
    /\ pc[w] = "gate_read"
    /\ gate' = [gate EXCEPT ![w].last_run = last_result_cleanup_at]
    /\ pc' = [pc EXCEPT ![w] = "handler"]
    /\ UNCHANGED <<nc, clock, datasets, metas, results, last_result_cleanup_at, req,
                   cr, cd, ld, out, served, saved_ds, saved_rs, swept>>

\* Variant of the gate: it records the trigger before it runs the sweeps.
GateRead_WriteFirst(w) ==
    /\ pc[w] = "gate_read"
    /\ gate' = [gate EXCEPT ![w].last_run = last_result_cleanup_at]
    /\ IF gate[w].now - last_result_cleanup_at >= RESULT_CLEANUP_INTERVAL_SECONDS
       THEN /\ pc' = [pc EXCEPT ![w] = "cr_list"]
            /\ last_result_cleanup_at' = gate[w].now
       ELSE /\ pc' = [pc EXCEPT ![w] = "handler"]
            /\ last_result_cleanup_at' = last_result_cleanup_at
    /\ UNCHANGED <<nc, clock, datasets, metas, results, req,
                   cr, cd, ld, out, served, saved_ds, saved_rs, swept>>

\* Variant of the gate: it fires only when more than the interval has passed.
GateRead_Strict(w) ==
    /\ pc[w] = "gate_read"
    /\ gate' = [gate EXCEPT ![w].last_run = last_result_cleanup_at]
    /\ IF gate[w].now - last_result_cleanup_at > RESULT_CLEANUP_INTERVAL_SECONDS
       THEN pc' = [pc EXCEPT ![w] = "cr_list"]
       ELSE pc' = [pc EXCEPT ![w] = "handler"]
    /\ UNCHANGED <<nc, clock, datasets, metas, results, last_result_cleanup_at, req,
                   cr, cd, ld, out, served, saved_ds, saved_rs, swept>>

\* last_run = app.extensions.get("last_result_cleanup_at", 0.0)
\* if now - last_run >= interval: sweep; else go on to the handler.
GateRead(w) ==
    /\ pc[w] = "gate_read"
    /\ gate' = [gate EXCEPT ![w].last_run = last_result_cleanup_at]
    /\ IF gate[w].now - last_result_cleanup_at >= RESULT_CLEANUP_INTERVAL_SECONDS
       THEN pc' = [pc EXCEPT ![w] = "cr_list"]
       ELSE pc' = [pc EXCEPT ![w] = "handler"]
    /\ UNCHANGED <<nc, clock, datasets, metas, results, last_result_cleanup_at, req,
                   cr, cd, ld, out, served, saved_ds, saved_rs, swept>>

\* app.extensions["last_result_cleanup_at"] = now; the handler follows.
GateWrite(w) ==
    /\ pc[w] = "gate_write"
    /\ last_result_cleanup_at' = gate[w].now
    /\ pc' = [pc EXCEPT ![w] = "handler"]
    /\ cr' = [cr EXCEPT ![w] = NoSweep]
    /\ cd' = [cd EXCEPT ![w] = NoSweep]
    /\ UNCHANGED <<nc, clock, datasets, metas, results, req, gate,
                   ld, out, served, saved_ds, saved_rs, swept>>

\* The request is routed to its handler, which runs up to its first call into a
\* store.  (An upload or a statistics request will draw an id from uuid4.)
Dispatch(w) ==
    /\ pc[w] = "handler"
    /\ \E r \in Requests :
        /\ HandlerPc(r) \in {"sd_write_pkl", "ld_exists"} =>
              Cardinality(FreshIds) > Cardinality({v \in Workers : WillDraw(v)})
        /\ req' = [req EXCEPT ![w] = r]
        /\ pc' = [pc EXCEPT ![w] = HandlerPc(r)]
        /\ out' = [out EXCEPT ![w] = HandlerOut(r)]
        /\ ld' = [ld EXCEPT ![w] = HandlerLoad(r, clock)]
    /\ UNCHANGED <<nc, clock, datasets, metas, results, last_result_cleanup_at, gate,
                   cr, cd, served, saved_ds, saved_rs, swept>>

\* The response is sent (or the uncaught exception becomes a 500).
EndRequest(w) ==
    /\ w \in Workers
    /\ pc[w] \in {"respond", "raised"}
    /\ pc' = [pc EXCEPT ![w] = "idle"]
    /\ req' = [req EXCEPT ![w] = NoReq]
    /\ gate' = [gate EXCEPT ![w] = NoGate]
    /\ cr' = [cr EXCEPT ![w] = NoSweep]
    /\ cd' = [cd EXCEPT ![w] = NoSweep]
    /\ ld' = [ld EXCEPT ![w] = NoLoad]
    /\ out' = [out EXCEPT ![w] = NoOut]
    /\ UNCHANGED <<nc, clock, datasets, metas, results, last_result_cleanup_at,
                   served, saved_ds, saved_rs, swept>>


-----------------------------------------------------------------------------
(* upload_dataset -> save_dataset (dataset_store.py) *)

\* Variant: the name read is returned as it is.
OrDefault_Raw(name) == name

\* x or "uploaded_file"
OrDefault(name) == IF name = "" THEN DefaultFilename ELSE name

\* dataset_id = uuid.uuid4().hex; df.to_pickle(dataset_path)
SdWritePkl(w) ==
    /\ pc[w] = "sd_write_pkl"
    /\ \E id \in FreshIds :
        /\ datasets' = WriteFile(datasets, id, File(clock, ToPickle(req[w].upload.df)))
        /\ saved_ds' = Put(saved_ds, id,
                           [df |-> req[w].upload.df, name |-> req[w].upload.name,
                            at |-> clock, returned |-> FALSE])
        /\ out' = [out EXCEPT ![w].id = id]
    /\ swept' = [swept EXCEPT !.datasets.dirty = TRUE]
    /\ pc' = [pc EXCEPT ![w] = "sd_write_meta"]
    /\ UNCHANGED <<nc, clock, metas, results, last_result_cleanup_at, req, gate,
                   cr, cd, ld, served, saved_rs>>

\* meta_path.write_text(json.dumps({"source_filename": ...})); return dataset_id;
\* the handler renders the page with the id.
SdWriteMeta(w) ==
    /\ pc[w] = "sd_write_meta"
    /\ metas' = WriteFile(metas, out[w].id,
                          File(clock, JsonDumps(OrDefault(OrDefault(req[w].upload.name)))))
    /\ saved_ds' = [saved_ds EXCEPT ![out[w].id].returned = TRUE]
    /\ out' = [out EXCEPT ![w] = Respond(@, 200)]
    /\ pc' = [pc EXCEPT ![w] = "respond"]
    /\ UNCHANGED <<nc, clock, datasets, results, last_result_cleanup_at, req, gate,
                   cr, cd, ld, served, saved_rs, swept>>

-----------------------------------------------------------------------------
(* generate_statistics -> load_dataset (dataset_store.py) *)

\* Variant: the handler goes on to the analysis after load_dataset has raised.
DsRaisePc_FallThrough(pcs, w, exc) == [pcs EXCEPT ![w] = "sr_write"]

DsRaisePc(pcs, w, exc) ==
    [pcs EXCEPT ![w] = RaisedPc(exc, "DatasetNotFoundError")]
DsRaiseOut(outs, w, exc) ==
    [outs EXCEPT ![w] = Raised(exc, "load_dataset", "DatasetNotFoundError")]

\* if not dataset_path.exists(): raise DatasetNotFoundError
LdExists(w) ==
    /\ pc[w] = "ld_exists"
    /\ IF ld[w].id \in DOMAIN datasets
       THEN /\ pc' = [pc EXCEPT ![w] = "ld_expired"]
            /\ out' = out
       ELSE /\ pc' = DsRaisePc(pc, w, "DatasetNotFoundError")
            /\ out' = DsRaiseOut(out, w, "DatasetNotFoundError")
    /\ UNCHANGED <<nc, clock, datasets, metas, results, last_result_cleanup_at, req, gate,
                   cr, cd, ld, served, saved_ds, saved_rs, swept>>

\* if _is_expired(dataset_path, ttl_seconds): stat raises FileNotFoundError when
\* the file has gone since exists().
LdExpired(w) ==
    /\ pc[w] = "ld_expired"
    /\ IF ld[w].id \notin DOMAIN datasets
       THEN /\ pc' = DsRaisePc(pc, w, "FileNotFoundError")
            /\ out' = DsRaiseOut(out, w, "FileNotFoundError")
            /\ ld' = ld
       ELSE /\ ld' = [ld EXCEPT ![w].t_check = clock,
                                ![w].st_mtime = datasets[ld[w].id].mtime]
            /\ pc' = [pc EXCEPT ![w] =
                         IF IsExpired(clock, datasets[ld[w].id].mtime, RESULT_TTL_SECONDS)
                         THEN "ld_unlink_pkl" ELSE "ld_read"]
            /\ out' = out
    /\ UNCHANGED <<nc, clock, datasets, metas, results, last_result_cleanup_at, req, gate,
                   cr, cd, served, saved_ds, saved_rs, swept>>

\* _safe_unlink(dataset_path)
LdUnlinkPkl(w) ==
    /\ pc[w] = "ld_unlink_pkl"
    /\ datasets' = Unlink(datasets, ld[w].id)
    /\ pc' = [pc EXCEPT ![w] = "ld_unlink_meta"]
    /\ UNCHANGED <<nc, clock, metas, results, last_result_cleanup_at, req, gate,
                   cr, cd, ld, out, served, saved_ds, saved_rs, swept>>

\* _safe_unlink(meta_path); raise DatasetNotFoundError
LdUnlinkMeta(w) ==
    /\ pc[w] = "ld_unlink_meta"
    /\ metas' = Unlink(metas, ld[w].id)
    /\ pc' = DsRaisePc(pc, w, "DatasetNotFoundError")
    /\ out' = DsRaiseOut(out, w, "DatasetNotFoundError")
    /\ UNCHANGED <<nc, clock, datasets, results, last_result_cleanup_at, req, gate,
                   cr, cd, ld, served, saved_ds, saved_rs, swept>>

\* Variant: reading the payload renews its last-modified time.
LdRead_Touch(w) ==
    /\ pc[w] = "ld_read"
    /\ IF ld[w].id \in DOMAIN datasets /\ IsPickle(datasets[ld[w].id].data)
       THEN /\ out' = [out EXCEPT ![w].payload = ReadPickle(datasets[ld[w].id].data)]
            /\ pc' = [pc EXCEPT ![w] = "ld_meta_exists"]
            /\ datasets' = [datasets EXCEPT ![ld[w].id].mtime = clock]
       ELSE /\ pc' = DsRaisePc(pc, w, "DatasetNotFoundError")
            /\ out' = DsRaiseOut(out, w, "DatasetNotFoundError")
            /\ datasets' = datasets
    /\ UNCHANGED <<nc, clock, metas, results, last_result_cleanup_at, req, gate,
                   cr, cd, ld, served, saved_ds, saved_rs, swept>>

\* try: df = pd.read_pickle(dataset_path) except Exception: raise DatasetNotFoundError
LdRead(w) ==
    /\ pc[w] = "ld_read"
    /\ IF ld[w].id \in DOMAIN datasets /\ IsPickle(datasets[ld[w].id].data)
       THEN /\ out' = [out EXCEPT ![w].payload = ReadPickle(datasets[ld[w].id].data)]
            /\ pc' = [pc EXCEPT ![w] = "ld_meta_exists"]
       ELSE /\ pc' = DsRaisePc(pc, w, "DatasetNotFoundError")
            /\ out' = DsRaiseOut(out, w, "DatasetNotFoundError")
    /\ UNCHANGED <<nc, clock, datasets, metas, results, last_result_cleanup_at, req, gate,
                   cr, cd, ld, served, saved_ds, saved_rs, swept>>

\* source_filename = "uploaded_file"; if meta_path.exists(): ...; else return
LdMetaExists(w) ==
    /\ pc[w] = "ld_meta_exists"
    /\ IF ld[w].id \in DOMAIN metas
       THEN /\ pc' = [pc EXCEPT ![w] = "ld_meta_read"]
            /\ out' = out
       ELSE /\ pc' = [pc EXCEPT ![w] = "st_loaded"]
            /\ out' = [out EXCEPT ![w].name = DefaultFilename]
    /\ UNCHANGED <<nc, clock, datasets, metas, results, last_result_cleanup_at, req, gate,
                   cr, cd, ld, served, saved_ds, saved_rs, swept>>

\* try: json.loads(meta_path.read_text()).get("source_filename") or default
\* except Exception: pass; return df, source_filename
LdMetaRead(w) ==
    /\ pc[w] = "ld_meta_read"
    /\ out' = [out EXCEPT ![w].name =
                  IF ld[w].id \in DOMAIN metas /\ IsJson(metas[ld[w].id].data)
                  THEN OrDefault(JsonSourceFilename(metas[ld[w].id].data))
                  ELSE DefaultFilename]
    /\ pc' = [pc EXCEPT ![w] = "st_loaded"]
    /\ UNCHANGED <<nc, clock, datasets, metas, results, last_result_cleanup_at, req, gate,
                   cr, cd, ld, served, saved_ds, saved_rs, swept>>

\* load_dataset has returned.  The column checks and
\* run_statistical_summary_for_columns: no column selected, a missing column or an
\* AnalysisError is a 400, any other exception a 500.
StAnalyze(w) ==
    /\ pc[w] = "st_loaded"
    /\ \E verdict \in {"ok", "rejected", "crashed"} :
        /\ pc' = [pc EXCEPT ![w] = IF verdict = "ok" THEN "sr_write" ELSE "respond"]
        /\ out' = [out EXCEPT ![w] =
                      CASE verdict = "ok" -> @
                        [] verdict = "rejected" -> Respond(@, 400)
                        [] verdict = "crashed" -> Respond(@, 500)]
    /\ UNCHANGED <<nc, clock, datasets, metas, results, last_result_cleanup_at, req, gate,
                   cr, cd, ld, served, saved_ds, saved_rs, swept>>

-----------------------------------------------------------------------------
(* save_result (result_store.py) *)

\* result_id = uuid.uuid4().hex; df.to_csv(result_path, index=False); return result_id
SrWrite(w) ==
    /\ pc[w] = "sr_write"
    /\ \E id \in FreshIds :
        /\ results' = WriteFile(results, id, File(clock, ToCsv(Summary(out[w].payload))))
        /\ saved_rs' = Put(saved_rs, id,
                           [data |-> ToCsv(Summary(out[w].payload)), at |-> clock])
        /\ out' = [out EXCEPT ![w] = Respond([@ EXCEPT !.id = id], 200)]
    /\ swept' = [swept EXCEPT !.results.dirty = TRUE]
    /\ pc' = [pc EXCEPT ![w] = "respond"]
    /\ UNCHANGED <<nc, clock, datasets, metas, last_result_cleanup_at, req, gate,
                   cr, cd, ld, served, saved_ds>>

-----------------------------------------------------------------------------
(* download_statistics -> load_result_csv (result_store.py) *)

RsRaisePc(pcs, w, exc) ==
    [pcs EXCEPT ![w] = RaisedPc(exc, "ResultNotFoundError")]
RsRaiseOut(outs, w, exc) ==
    [outs EXCEPT ![w] = Raised(exc, "load_result_csv", "ResultNotFoundError")]

\* if not result_path.exists(): raise ResultNotFoundError
LrExists(w) ==
    /\ pc[w] = "lr_exists"
    /\ IF ld[w].id \in DOMAIN results
       THEN /\ pc' = [pc EXCEPT ![w] = "lr_expired"]
            /\ out' = out
       ELSE /\ pc' = RsRaisePc(pc, w, "ResultNotFoundError")
            /\ out' = RsRaiseOut(out, w, "ResultNotFoundError")
    /\ UNCHANGED <<nc, clock, datasets, metas, results, last_result_cleanup_at, req, gate,
                   cr, cd, ld, served, saved_ds, saved_rs, swept>>

\* if _is_expired(result_path, ttl_seconds)
LrExpired(w) ==
    /\ pc[w] = "lr_expired"
    /\ IF ld[w].id \notin DOMAIN results
       THEN /\ pc' = RsRaisePc(pc, w, "FileNotFoundError")
            /\ out' = RsRaiseOut(out, w, "FileNotFoundError")
            /\ ld' = ld
       ELSE /\ ld' = [ld EXCEPT ![w].t_check = clock,
                                ![w].st_mtime = results[ld[w].id].mtime]
            /\ pc' = [pc EXCEPT ![w] =
                         IF IsExpired(clock, results[ld[w].id].mtime, RESULT_TTL_SECONDS)
                         THEN "lr_unlink" ELSE "lr_read"]
            /\ out' = out
    /\ UNCHANGED <<nc, clock, datasets, metas, results, last_result_cleanup_at, req, gate,
                   cr, cd, served, saved_ds, saved_rs, swept>>

\* result_path.unlink(missing_ok=True); raise ResultNotFoundError
LrUnlink(w) ==
    /\ pc[w] = "lr_unlink"
    /\ results' = Unlink(results, ld[w].id)
    /\ pc' = RsRaisePc(pc, w, "ResultNotFoundError")
    /\ out' = RsRaiseOut(out, w, "ResultNotFoundError")
    /\ UNCHANGED <<nc, clock, datasets, metas, last_result_cleanup_at, req, gate,
                   cr, cd, ld, served, saved_ds, saved_rs, swept>>

\* return result_path.read_bytes(): FileNotFoundError when the file has gone.
LrRead(w) ==
    /\ pc[w] = "lr_read"
    /\ IF ld[w].id \in DOMAIN results
       THEN /\ out' = [out EXCEPT ![w].payload = results[ld[w].id].data]
            /\ pc' = [pc EXCEPT ![w] = "dl_loaded"]
       ELSE /\ pc' = RsRaisePc(pc, w, "FileNotFoundError")
            /\ out' = RsRaiseOut(out, w, "FileNotFoundError")
    /\ UNCHANGED <<nc, clock, datasets, metas, results, last_result_cleanup_at, req, gate,
                   cr, cd, ld, served, saved_ds, saved_rs, swept>>

\* load_result_csv has returned: return send_file(io.BytesIO(csv_bytes), ...)
DlSend(w) ==
    /\ pc[w] = "dl_loaded"
    /\ out' = [out EXCEPT ![w] = Respond(@, 200)]
    /\ pc' = [pc EXCEPT ![w] = "respond"]
    /\ UNCHANGED <<nc, clock, datasets, metas, results, last_result_cleanup_at, req, gate,
                   cr, cd, ld, served, saved_ds, saved_rs, swept>>

-----------------------------------------------------------------------------
(* _normalize_columns (file_parser.py) *)

\* The longest sequence of column names given to the function.
MaxColumns == 3

\* A column label that is None.
None == <<"<None>">>
\* The labels of a column: None, the empty string, blanks, a name, the same name
\* with a blank before it, and names that look like the ones the function makes.
ColumnNames == {None, <<>>, <<" ">>, <<"a">>, <<" ", "a">>, <<"a", "_", "2">>,
                <<"c", "o", "l", "u", "m", "n", "_", "2">>}
ColumnInputs == UNION {[1..n -> ColumnNames] : n \in 0..MaxColumns}

\* str(n) of a natural number, as in an f-string.
Digit(d) == CASE d = 0 -> "0" [] d = 1 -> "1" [] d = 2 -> "2" [] d = 3 -> "3"
              [] d = 4 -> "4" [] d = 5 -> "5" [] d = 6 -> "6" [] d = 7 -> "7"
              [] d = 8 -> "8" [] d = 9 -> "9"
RECURSIVE Str(_)
Str(n) == IF n < 10 THEN <<Digit(n)>> ELSE Str(n \div 10) \o <<Digit(n % 10)>>

\* seen.get(name, 0)
Get(seen, name) == IF name \in DOMAIN seen THEN seen[name] ELSE 0

\* name = str(column).strip() if column is not None else ""
\* if not name: name = f"column_{idx + 1}"
CleanName(column, idx) ==
    LET name == IF column # None THEN Strip(column) ELSE <<>>
    IN IF name = <<>>
       THEN <<"c", "o", "l", "u", "m", "n", "_">> \o Str(idx + 1)
       ELSE name

\* if count > 0: name = f"{name}_{count + 1}"
Suffixed(name, count) ==
    IF count > 0 THEN name \o <<"_">> \o Str(count + 1) ELSE name

\* One pass of the loop: for idx, column in enumerate(columns)
NcLoop ==
    /\ ~nc.returned
    /\ nc.idx < Len(nc.columns)
    /\ LET name == CleanName(nc.columns[nc.idx + 1], nc.idx)
           count == Get(nc.seen, name)
       IN nc' = [nc EXCEPT !.seen = Put(@, name, count + 1),
                           !.cleaned = Append(@, Suffixed(name, count)),
                           !.idx = @ + 1]
    /\ UNCHANGED <<clock, datasets, metas, results, last_result_cleanup_at, pc, req,
                   gate, cr, cd, ld, out, served, saved_ds, saved_rs, swept>>

\* return cleaned
NcReturn ==
    /\ ~nc.returned
    /\ nc.idx = Len(nc.columns)
    /\ nc' = [nc EXCEPT !.returned = TRUE]
    /\ UNCHANGED <<clock, datasets, metas, results, last_result_cleanup_at, pc, req,
                   gate, cr, cd, ld, out, served, saved_ds, saved_rs, swept>>

-----------------------------------------------------------------------------
(* Specifications *)

SweepStep(t) ==
    \/ CrList(t) \/ CrExamine(t) \/ CrUnlink(t)
    \/ CdList(t) \/ CdExamine(t) \/ CdUnlinkPkl(t) \/ CdUnlinkMeta(t)

RequestStep(w) ==
    \/ BeginRequest(w) \/ GateNow(w) \/ GateRead(w) \/ GateWrite(w) \/ Dispatch(w)
    \/ EndRequest(w)
    \/ SdWritePkl(w) \/ SdWriteMeta(w)
    \/ LdExists(w) \/ LdExpired(w) \/ LdUnlinkPkl(w) \/ LdUnlinkMeta(w)
    \/ LdRead(w) \/ LdMetaExists(w) \/ LdMetaRead(w) \/ StAnalyze(w)
    \/ SrWrite(w)
    \/ LrExists(w) \/ LrExpired(w) \/ LrUnlink(w) \/ LrRead(w) \/ DlSend(w)

\* Requests served by threads that interleave at every filesystem call.
Next ==
    \/ Tick
    \/ AppRun
    \/ \E t \in Threads : SweepStep(t)
    \/ \E w \in Workers : RequestStep(w)

Spec == Init /\ [][Next]_vars

\* No other request is in progress.
Alone(t) == \A v \in Workers \ {t} : pc[v] = "idle"

\* Requests handled one at a time.
SeqNext ==
    \/ Tick
    \/ AppRun
    \/ \E t \in Threads : Alone(t) /\ SweepStep(t)
    \/ \E w \in Workers : Alone(w) /\ RequestStep(w)

SeqSpec == Init /\ [][SeqNext]_vars

\* The process starts on an empty store, or on one where a previous process left
\* an unreadable pickle at the end of its TTL.
LiveLeftovers ==
    {l \in Leftovers : /\ l.csv = NoFiles /\ l.meta = NoFiles
                       /\ l.pkl \in {NoFiles, OldFile(RESULT_TTL_SECONDS, Corrupt)}}

LiveInit ==
    /\ Init
    /\ \E l \in LiveLeftovers : datasets = l.pkl /\ metas = l.meta /\ results = l.csv

\* Requests handled one at a time, without end, while time goes on.
LiveNext ==
    \/ Tick
    \/ TickOn
    \/ AppRun
    \/ \E t \in Threads : Alone(t) /\ SweepStep(t)
    \/ \E w \in Workers : Alone(w) /\ (RequestStep(w) \/ NextRequest(w))

\* Time keeps advancing (a second passes again and again, though not in the
\* instant between the two lines of a gate); create_app runs to its end; requests
\* keep arriving and each is served to its end.
LiveSpec ==
    /\ LiveInit
    /\ [][LiveNext]_vars
    /\ SF_vars(Tick \/ TickOn)
    /\ WF_vars(AppRun \/ SweepStep("main"))
    /\ \A w \in Workers :
          WF_vars(Alone(w) /\ (SweepStep(w) \/ RequestStep(w) \/ NextRequest(w)))

\* _normalize_columns is called with a sequence of column labels; nothing else
\* runs.
NormInit ==
    /\ clock = BootTime
    /\ datasets = NoFiles /\ metas = NoFiles /\ results = NoFiles
    /\ saved_ds = NoFiles /\ saved_rs = NoFiles
    /\ last_result_cleanup_at = 0
    /\ pc = [t \in Threads |-> "idle"]
    /\ req = [t \in Threads |-> NoReq]
    /\ gate = [t \in Threads |-> NoGate]
    /\ cr = [t \in Threads |-> NoSweep]
    /\ cd = [t \in Threads |-> NoSweep]
    /\ ld = [t \in Threads |-> NoLoad]
    /\ out = [t \in Threads |-> NoOut]
    /\ served = 0
    /\ swept = [results |-> NeverSwept, datasets |-> NeverSwept]
    /\ \E c \in ColumnInputs : nc = [NoNorm EXCEPT !.columns = c]

NormNext == NcLoop \/ NcReturn

NormSpec == NormInit /\ [][NormNext]_vars


-----------------------------------------------------------------------------
(* Properties *)

NotFoundErrors == {"DatasetNotFoundError", "ResultNotFoundError"}

\* An id of exactly 32 characters drawn from 0-9a-f.
WellFormedId(s) == Len(s) = IdLen /\ \A i \in 1..Len(s) : s[i] \in HexDigits

\* load_dataset / load_result_csv has just returned its payload to thread w.
DatasetLoaded(w) == pc[w] = "st_loaded"
ResultLoaded(w) == pc[w] = "dl_loaded"
Loaded(w) == DatasetLoaded(w) \/ ResultLoaded(w)
\* load_dataset / load_result_csv has raised in thread w.
DatasetLoadFailed(w) == out[w].raised_in = "load_dataset"
ResultLoadFailed(w) == out[w].raised_in = "load_result_csv"
\* The handler of w's request has called load.
LoadCalled(w) ==
    \/ req[w].kind = "download"
    \/ req[w].kind = "statistics" /\ Strip(req[w].id) # <<>>

\* C1 as stated: at the moment a load returns a payload, the age of the object
\* (current time minus the last-modified time the load read) does not exceed
\* ttl_seconds.
C1_NotExpiredAtReturn ==
    \A w \in Workers : Loaded(w) => clock - ld[w].st_mtime <= RESULT_TTL_SECONDS

\* C1 amended: a load returns a payload only if the object's age was at most
\* ttl_seconds at the time the load's expiry check read the clock, whether or not
\* a sweep has run; the last-modified time it read is that of the object.
C1_NotExpiredWhenChecked ==
    \A w \in Workers :
        Loaded(w) =>
            /\ ld[w].t_check - ld[w].st_mtime <= RESULT_TTL_SECONDS
            /\ DatasetLoaded(w) /\ ld[w].id \in DOMAIN datasets
                  => datasets[ld[w].id].mtime = ld[w].st_mtime
            /\ ResultLoaded(w) /\ ld[w].id \in DOMAIN results
                  => results[ld[w].id].mtime = ld[w].st_mtime

\* A load returns an object at the very end of its TTL, without any sweep having
\* run since the object reached that age.
C1_Witness ==
    \E w \in Workers :
        /\ Loaded(w)
        /\ ld[w].t_check - ld[w].st_mtime = RESULT_TTL_SECONDS
        /\ ld[w].t_check > BootTime
        /\ swept.results.began < ld[w].t_check

\* C2: a load of an id a save has returned, made before any time has passed since
\* the save wrote the payload, succeeds (ttl_seconds > 0) and returns the saved
\* payload (and the saved source filename); as long as they exist, the files of a
\* saved object hold what save wrote.
C2_RoundTrip ==
    /\ \A w \in Workers :
        /\ ( /\ req[w].kind = "statistics"
             /\ ld[w].id \in DOMAIN saved_ds
             /\ saved_ds[ld[w].id].returned
             /\ clock = saved_ds[ld[w].id].at
             /\ RESULT_TTL_SECONDS > 0
             /\ DatasetLoaded(w) \/ DatasetLoadFailed(w) )
           => /\ DatasetLoaded(w)
              /\ out[w].payload = saved_ds[ld[w].id].df
              /\ out[w].name = saved_ds[ld[w].id].name
        /\ ( /\ req[w].kind = "download"
             /\ ld[w].id \in DOMAIN saved_rs
             /\ clock = saved_rs[ld[w].id].at
             /\ RESULT_TTL_SECONDS > 0
             /\ ResultLoaded(w) \/ ResultLoadFailed(w) )
           => /\ ResultLoaded(w)
              /\ out[w].payload = saved_rs[ld[w].id].data
    /\ \A i \in DOMAIN saved_ds :
        /\ i \in DOMAIN datasets =>
              datasets[i] = File(saved_ds[i].at, ToPickle(saved_ds[i].df))
        /\ i \in DOMAIN metas =>
              metas[i].data = JsonDumps(saved_ds[i].name)
    /\ \A i \in DOMAIN saved_rs :
        i \in DOMAIN results => results[i] = File(saved_rs[i].at, saved_rs[i].data)

\* A dataset uploaded by this process is loaded back at once.
C2_Witness ==
    \E w \in Workers :
        /\ DatasetLoaded(w)
        /\ ld[w].id \in UuidPool
        /\ clock = saved_ds[ld[w].id].at

\* C3: a load called with an id that is not exactly 32 characters of 0-9a-f has
\* failed with NotFound before any path is derived: it is never at a filesystem
\* call.
C3_MalformedIdNeverResolved ==
    \A w \in Workers :
        LoadCalled(w) /\ ~WellFormedId(ld[w].id) =>
            /\ pc[w] = "respond"
            /\ out[w].exc \in NotFoundErrors

\* C4: for an object saved at time T, with ttl_seconds = S: a load made by T+S has
\* succeeded when it ends and the object's files are in place; a load made after
\* T+S has failed with NotFound when it ends and neither file of the id exists.
C4_LoadAroundExpiry ==
    \A w \in Workers :
        /\ ( /\ req[w].kind = "statistics"
             /\ ld[w].id \in DOMAIN saved_ds
             /\ saved_ds[ld[w].id].returned
             /\ DatasetLoaded(w) \/ DatasetLoadFailed(w) )
           => LET T == saved_ds[ld[w].id].at
                  S == RESULT_TTL_SECONDS
              IN /\ clock <= T + S =>
                       /\ DatasetLoaded(w)
                       /\ ld[w].id \in DOMAIN datasets
                       /\ ld[w].id \in DOMAIN metas
                 /\ ld[w].t0 > T + S =>
                       /\ out[w].exc = "DatasetNotFoundError"
                       /\ ld[w].id \notin DOMAIN datasets
                       /\ ld[w].id \notin DOMAIN metas
        /\ ( /\ req[w].kind = "download"
             /\ ld[w].id \in DOMAIN saved_rs
             /\ ResultLoaded(w) \/ ResultLoadFailed(w) )
           => LET T == saved_rs[ld[w].id].at
                  S == RESULT_TTL_SECONDS
              IN /\ clock <= T + S =>
                       /\ ResultLoaded(w)
                       /\ ld[w].id \in DOMAIN results
                 /\ ld[w].t0 > T + S =>
                       /\ out[w].exc = "ResultNotFoundError"
                       /\ ld[w].id \notin DOMAIN results

\* cleanup_expired has returned in thread t (its caller is about to call
\* cleanup_expired_datasets); cleanup_expired_datasets has returned.
CrReturned(t) == pc[t] = "cd_list"
CdReturned(t) == pc[t] \in {"ready", "gate_write"}

\* The files of dir whose stems are in keep.
Restrict(dir, keep) == [s \in DOMAIN dir \cap keep |-> dir[s]]
\* The listed files the sweep found fresh when it examined them.
FoundFresh(f) ==
    {s \in f.listed : s \in DOMAIN f.seen_at /\
                      f.seen_at[s] - f.snap[s].mtime <= RESULT_TTL_SECONDS}

\* C5: with requests handled one at a time, when a sweep returns it has examined
\* every payload file of its directory, the directory holds exactly the files
\* that were not expired when examined, unchanged (for datasets with their
\* metadata unchanged, and without the metadata of the deleted ones), and the
\* count returned is the number of files removed.
C5_SweepDeletesExactlyExpired ==
    \A t \in Threads :
        /\ CrReturned(t) =>
              /\ DOMAIN cr[t].seen_at = cr[t].listed
              /\ results = Restrict(cr[t].snap, FoundFresh(cr[t]))
              /\ cr[t].count = Cardinality(cr[t].listed \ FoundFresh(cr[t]))
        /\ CdReturned(t) =>
              /\ DOMAIN cd[t].seen_at = cd[t].listed
              /\ datasets = Restrict(cd[t].snap, FoundFresh(cd[t]))
              /\ metas = Restrict(cd[t].snap_meta,
                                  DOMAIN cd[t].snap_meta \ (cd[t].listed \ FoundFresh(cd[t])))
              /\ cd[t].count = Cardinality(cd[t].listed \ FoundFresh(cd[t]))

\* A sweep of the dataset directory returns having deleted one dataset and kept
\* another.
C5_Witness ==
    \E w \in Workers :
        /\ CdReturned(w)
        /\ cd[w].count = 1
        /\ Cardinality(cd[w].listed) = 2

\* C6: with requests handled one at a time, a sweep that ends with the clock
\* still at the time the previous sweep of the same store listed it, with no
\* save into the store in between, returns 0 and leaves the store as it found it.
C6_SweepIdempotent ==
    \A t \in Threads :
        /\ ( /\ CrReturned(t)
             /\ cr[t].prev.began = clock
             /\ ~cr[t].prev.dirty )
           => /\ cr[t].count = 0
              /\ results = cr[t].snap
        /\ ( /\ CdReturned(t)
             /\ cd[t].prev.began = clock
             /\ ~cd[t].prev.dirty )
           => /\ cd[t].count = 0
              /\ datasets = cd[t].snap
              /\ metas = cd[t].snap_meta

\* The first request's sweep follows the startup sweep at once, the startup
\* sweep having deleted the expired result and kept the fresh dataset.
C6_Witness ==
    \E w \in Workers :
        /\ CdReturned(w)
        /\ cd[w].prev.began = clock
        /\ cd[w].listed # {}
        /\ LeftoverId \in DOMAIN saved_rs
        /\ LeftoverId \notin DOMAIN results

\* C7: a sweep raises no error, whatever another sweep or an expiring load
\* deletes after the sweep has listed the directory.
C7_SweepNeverRaises ==
    \A t \in Threads :
        out[t].raised_in \notin {"cleanup_expired", "cleanup_expired_datasets"}

\* C8: whenever a load fails, it fails with the store's NotFound error.
C8_LoadFailsOnlyWithNotFound ==
    \A w \in Workers :
        /\ DatasetLoadFailed(w) => out[w].exc = "DatasetNotFoundError"
        /\ ResultLoadFailed(w) => out[w].exc = "ResultNotFoundError"

\* C9: with requests handled one at a time, when the gate of a request decides
\* to sweep, at least cleanup_interval_seconds have passed since the previous
\* sweep trigger, the startup sweep included.
C9_IntervalBetweenSweeps ==
    \A w \in Workers :
        pc[w] = "cr_list" =>
            gate[w].now - swept.results.trigger >= RESULT_CLEANUP_INTERVAL_SECONDS

\* create_app has returned.
AppReady == pc["main"] = "ready"

\* C10: when create_app returns, both stores have been swept with the configured
\* TTL: every payload file in either directory was examined by the startup sweep
\* and was not expired then.
C10_StartupSweep ==
    AppReady =>
        /\ swept.results.began >= BootTime
        /\ swept.datasets.began >= BootTime
        /\ \A s \in DOMAIN results :
              /\ s \in DOMAIN cr["main"].seen_at
              /\ cr["main"].seen_at[s] - results[s].mtime <= RESULT_TTL_SECONDS
        /\ \A s \in DOMAIN datasets :
              /\ s \in DOMAIN cd["main"].seen_at
              /\ cd["main"].seen_at[s] - datasets[s].mtime <= RESULT_TTL_SECONDS

\* create_app returns having deleted the expired dataset and the expired result a
\* previous process left behind.
C10_Witness ==
    /\ AppReady
    /\ cr["main"].count = 1
    /\ cd["main"].count = 1


\* A sweep has raised in thread t; the sweeps a trigger started in t are over.
SweepRaised(t) == out[t].raised_in \in {"cleanup_expired", "cleanup_expired_datasets"}
TriggerOver(t) == CdReturned(t) \/ SweepRaised(t)
\* The sweep of frame f listed its store and examined every file it listed.
Examined(f) == f.began >= BootTime /\ DOMAIN f.seen_at = f.listed

\* C11: whenever the sweeps of a trigger (startup, or a request whose gate fired)
\* are over, the result store and the dataset store have both been swept on that
\* trigger: there is no trigger on which only one of them is.
C11_BothStoresSwept ==
    \A t \in Threads :
        TriggerOver(t) => Examined(cr[t]) /\ Examined(cd[t])


\* Every id a file can bear.
AllIds == UuidPool \cup {LeftoverId}
\* The ids that have been in use, in either store.
UsedIds == DOMAIN saved_ds \cup DOMAIN saved_rs \cup DOMAIN datasets \cup DOMAIN results
\* This step is thread w's save_dataset / save_result writing the payload.
SavesDataset(w) == pc[w] = "sd_write_pkl" /\ pc'[w] = "sd_write_meta"
SavesResult(w) == pc[w] = "sr_write" /\ pc'[w] = "respond"

\* One step of the life of the objects: a payload file appears only by a save, at
\* the current time and under an id never used before; while it exists its
\* content and last-modified time do not change (so only the clock, which never
\* goes back, makes it expired, and it never becomes fresh again); it disappears
\* only when expired; metadata is written once and never rewritten.
LifecycleStep ==
    /\ clock' >= clock
    /\ \A i \in AllIds :
        /\ (i \notin DOMAIN datasets /\ i \in DOMAIN datasets') =>
              /\ i \notin UsedIds
              /\ \E w \in Workers : SavesDataset(w)
              /\ datasets'[i].mtime = clock
        /\ (i \in DOMAIN datasets /\ i \in DOMAIN datasets') => datasets'[i] = datasets[i]
        /\ (i \in DOMAIN datasets /\ i \notin DOMAIN datasets') =>
              clock - datasets[i].mtime > RESULT_TTL_SECONDS
        /\ (i \in DOMAIN metas /\ i \in DOMAIN metas') => metas'[i] = metas[i]
        /\ (i \notin DOMAIN results /\ i \in DOMAIN results') =>
              /\ i \notin UsedIds
              /\ \E w \in Workers : SavesResult(w)
              /\ results'[i].mtime = clock
        /\ (i \in DOMAIN results /\ i \in DOMAIN results') => results'[i] = results[i]
        /\ (i \in DOMAIN results /\ i \notin DOMAIN results') =>
              clock - results[i].mtime > RESULT_TTL_SECONDS

\* C12: every stored object goes absent -> present(fresh) -> present(expired) ->
\* absent under any interleaving of saves, loads, sweeps and clock steps: every
\* step of the program is a step of that life.
C12_Lifecycle == [][LifecycleStep]_vars

\* A dataset saved by this process has lived its whole life: it was saved, it
\* expired, and its files have been deleted.
C12_Witness ==
    \E i \in UuidPool :
        /\ i \in DOMAIN saved_ds
        /\ saved_ds[i].returned
        /\ i \notin DOMAIN datasets
        /\ i \notin DOMAIN metas


\* load_dataset has read the payload and is at the metadata.
AtMetadata(w) == pc[w] \in {"ld_meta_exists", "ld_meta_read"}
\* Metadata that parses and holds a non-empty source_filename.
GoodMeta(d) == d[1] = "json" /\ Len(d) >= 2 /\ d[2] # ""

\* C13: once load_dataset has read a fresh, readable payload it does not fail,
\* whatever the metadata: it returns next.  The filename it returns is the stored
\* source_filename when the metadata file parses and holds a non-empty one, and
\* "uploaded_file" when the file is missing, unparseable, or lacks one.  (A
\* metadata file that is gone when load returns was missing, or was read before
\* it was deleted.)
C13_MetadataNeverFailsLoad ==
    /\ [](\A w \in Workers :
            DatasetLoaded(w) =>
                IF ld[w].id \in DOMAIN metas
                THEN out[w].name = IF GoodMeta(metas[ld[w].id].data)
                                   THEN metas[ld[w].id].data[2]
                                   ELSE DefaultFilename
                ELSE \/ out[w].name = DefaultFilename
                     \/ /\ ld[w].id \in DOMAIN saved_ds
                        /\ out[w].name = saved_ds[ld[w].id].name)
    /\ [][\A w \in Workers :
            AtMetadata(w) =>
                /\ pc'[w] \in {pc[w], "ld_meta_read", "st_loaded"}
                /\ out'[w].exc = "none"
                /\ out'[w].payload = out[w].payload]_vars

\* A load returns the default filename for a dataset whose metadata file is there
\* but holds no usable source_filename.
C13_Witness ==
    \E w \in Workers :
        /\ DatasetLoaded(w)
        /\ ld[w].id \in DOMAIN metas
        /\ ~GoodMeta(metas[ld[w].id].data)
        /\ out[w].name = DefaultFilename


\* Thread w serves a statistics request.
Statistics(w) == req[w].kind = "statistics"

\* C14: a statistics request with an empty dataset id is answered 400 and one
\* whose load_dataset raised NotFound (malformed, absent, expired or corrupt
\* dataset) 404, neither with a result id; a result id is produced, and a file
\* written to the result store, only by a statistics request whose load_dataset
\* returned a table and whose analysis succeeded, and the file holds the summary
\* of that table.
C14_ResultOnlyAfterLoad ==
    /\ [](\A w \in Workers :
            Statistics(w) =>
                /\ Strip(req[w].id) = <<>> =>
                      /\ out[w].status = 400
                      /\ out[w].id = <<>>
                /\ DatasetLoadFailed(w) =>
                      /\ out[w].id = <<>>
                      /\ pc[w] \in {"respond", "raised"}
                      /\ out[w].exc = "DatasetNotFoundError" => out[w].status = 404
                /\ out[w].id # <<>> =>
                      /\ out[w].status = 200
                      /\ out[w].exc = "none"
                      /\ out[w].payload # <<>>
                      /\ out[w].id \in DOMAIN saved_rs
                      /\ saved_rs[out[w].id].data = ToCsv(Summary(out[w].payload)))
    /\ [][\A i \in AllIds :
            (i \notin DOMAIN results /\ i \in DOMAIN results') =>
                \E w \in Workers :
                    /\ Statistics(w)
                    /\ SavesResult(w)
                    /\ out[w].exc = "none"
                    /\ out[w].payload # <<>>
                    /\ out'[w].id = i]_vars

\* A statistics request for an expired dataset is answered 404 without a result.
C14_Witness ==
    \E w \in Workers :
        /\ Statistics(w)
        /\ out[w].exc = "DatasetNotFoundError"
        /\ out[w].status = 404
        /\ ld[w].t_check - ld[w].st_mtime > RESULT_TTL_SECONDS


\* The datasets the sweep of frame f found expired and has finished deleting.
Deleted(f) ==
    {i \in f.listed \ f.todo :
        i \in DOMAIN f.seen_at /\ f.seen_at[i] - f.snap[i].mtime > RESULT_TTL_SECONDS}
\* load_dataset in thread w found its dataset expired, and has ended.
ExpiredLoadEnded(w) ==
    /\ Statistics(w)
    /\ pc[w] \in {"respond", "raised"}
    /\ ld[w].t_check - ld[w].st_mtime > RESULT_TTL_SECONDS
\* Thread t is at an unlink of an expired dataset's payload / metadata.
AtUnlinkPkl(t) == pc[t] \in {"cd_unlink_pkl", "ld_unlink_pkl"}
AtUnlinkMeta(t) == pc[t] \in {"cd_unlink_meta", "ld_unlink_meta"}

\* The dataset whose files thread t is unlinking.
Target(t) == IF pc[t] \in {"cd_unlink_pkl", "cd_unlink_meta"} THEN cd[t].cur ELSE ld[t].id

\* C15: load_dataset and cleanup_expired_datasets delete an expired dataset by
\* unlinking its payload and then, in the same call, its metadata: neither unlink
\* raises, whether or not the file is there, and after the second neither file
\* exists.  A sweep counts exactly the datasets it deleted, and a load that found
\* its dataset expired ends with NotFound.
C15_BothFilesDeleted ==
    /\ [](/\ \A t \in Threads :
                /\ cd[t].count = Cardinality(Deleted(cd[t]))
                /\ \A i \in Deleted(cd[t]) : i \notin DOMAIN datasets
                /\ AtUnlinkMeta(t) => Target(t) \notin DOMAIN datasets
          /\ \A w \in Workers :
                ExpiredLoadEnded(w) =>
                    /\ out[w].exc = "DatasetNotFoundError"
                    /\ ld[w].id \notin DOMAIN datasets)
    /\ [][\A t \in Threads :
            /\ (AtUnlinkPkl(t) /\ pc'[t] # pc[t]) =>
                  /\ pc'[t] \in {"cd_unlink_meta", "ld_unlink_meta"}
                  /\ Target(t) \notin DOMAIN datasets'
            /\ (AtUnlinkMeta(t) /\ pc'[t] # pc[t]) =>
                  /\ out'[t].exc # "FileNotFoundError"
                  /\ Target(t) \notin DOMAIN datasets'
                  /\ Target(t) \notin DOMAIN metas']_vars

\* A sweep has deleted an expired dataset that had no metadata file.
C15_Witness ==
    \E t \in Threads : \E i \in Deleted(cd[t]) : i \notin DOMAIN cd[t].snap_meta


\* A load has ended in thread w by an exception no handler catches.
LoadCrashed(w) == pc[w] = "raised" /\ (DatasetLoadFailed(w) \/ ResultLoadFailed(w))

\* C16: a load running concurrently with a sweep or with another load of the
\* same id either returns the payload or fails with the store's NotFound error
\* (which the handler answers with a 404): it never ends with another error.
C16_LoadRaceEndsInNotFound ==
    \A w \in Workers :
        /\ ~LoadCrashed(w)
        /\ (pc[w] = "respond" /\ (DatasetLoadFailed(w) \/ ResultLoadFailed(w))) =>
              /\ out[w].exc \in NotFoundErrors
              /\ out[w].status = 404


\* C17: whatever the interleaving of the requests that read and write
\* last_result_cleanup_at and run the sweeps, no object is deleted while fresh, no
\* load returns an object it found expired, and every request whose gate fired
\* goes on to its handler: the races cost extra sweeps or a later sweep, never a
\* failure.
C17_TimestampRacesBenign ==
    /\ \A i \in DOMAIN saved_ds :
          i \notin DOMAIN datasets => clock - saved_ds[i].at > RESULT_TTL_SECONDS
    /\ \A i \in DOMAIN saved_rs :
          i \notin DOMAIN results => clock - saved_rs[i].at > RESULT_TTL_SECONDS
    /\ \A w \in Workers :
          /\ Loaded(w) => ~IsExpired(ld[w].t_check, ld[w].st_mtime, RESULT_TTL_SECONDS)
          /\ ~SweepRaised(w)

\* The conjuncts of C17 about the stored objects alone.
C17_ObjectsSafe ==
    /\ \A i \in DOMAIN saved_ds :
          i \notin DOMAIN datasets => clock - saved_ds[i].at > RESULT_TTL_SECONDS
    /\ \A i \in DOMAIN saved_rs :
          i \notin DOMAIN results => clock - saved_rs[i].at > RESULT_TTL_SECONDS
    /\ \A w \in Workers :
          Loaded(w) => ~IsExpired(ld[w].t_check, ld[w].st_mtime, RESULT_TTL_SECONDS)


\* The three steps of the gate in thread w: it samples the clock; it reads
\* last_result_cleanup_at and decides; after the sweeps it writes it.
SamplesNow(w) == pc[w] = "gate_now" /\ pc'[w] # pc[w]
Decides(w) == pc[w] = "gate_read" /\ pc'[w] # pc[w]
AfterSweeps(w) == pc[w] = "gate_write" /\ pc'[w] # pc[w]

\* C18: on each request the gate samples the current time as now; it runs the
\* sweeps if and only if now - last_result_cleanup_at >= the cleanup interval;
\* when it has run them it sets last_result_cleanup_at to the sampled now and the
\* handler follows; when it does not run them it leaves last_result_cleanup_at
\* and both stores unchanged and the handler follows.
C18_GateDecision ==
    [][\A w \in Workers :
        /\ SamplesNow(w) => gate'[w].now = clock /\ pc'[w] = "gate_read"
        /\ Decides(w) =>
              /\ pc'[w] = "cr_list"
                    <=> gate[w].now - last_result_cleanup_at
                            >= RESULT_CLEANUP_INTERVAL_SECONDS
              /\ pc'[w] # "cr_list" =>
                    /\ pc'[w] = "handler"
                    /\ UNCHANGED <<last_result_cleanup_at, datasets, metas, results>>
        /\ AfterSweeps(w) =>
              /\ last_result_cleanup_at' = gate[w].now
              /\ pc'[w] = "handler"
              /\ gate[w].now - gate[w].last_run >= RESULT_CLEANUP_INTERVAL_SECONDS
              /\ Examined(cr[w]) /\ Examined(cd[w])]_vars

\* A gate has let a request through without sweeping, exactly one second short of
\* the interval after the last sweep trigger.
C18_Witness ==
    \E w \in Workers :
        /\ pc[w] = "handler"
        /\ gate[w].last_run > 0
        /\ gate[w].now - gate[w].last_run = RESULT_CLEANUP_INTERVAL_SECONDS - 1


\* create_app has returned and no request is being served.
Quiescent == pc["main"] \in {"ready", "serving"} /\ \A w \in Workers : pc[w] = "idle"

\* C19: with no operation in progress, every <id>.json in the dataset directory
\* has its <id>.pkl, whatever the interleaving of the saves, loads and sweeps that
\* have completed and however much time passed between their steps.
C19_NoOrphanMetadata ==
    Quiescent => DOMAIN metas \subseteq DOMAIN datasets


\* The steps of a load that is not deleting an object it found expired: the
\* existence check, the expiry check, the reads.
ReadingPcs == {"ld_exists", "ld_expired", "ld_read", "ld_meta_exists", "ld_meta_read",
               "lr_exists", "lr_expired", "lr_read"}
\* The steps of a load that delete.
UnlinkingPcs == {"ld_unlink_pkl", "ld_unlink_meta", "lr_unlink"}
\* This step is thread w's handler calling load, the id being validated.
CallsLoad(w) ==
    pc[w] = "handler" /\ pc'[w] # pc[w] /\ req'[w].kind \in {"statistics", "download"}

\* C20: a load changes a store only to delete the object it was asked for, after
\* finding it expired: the validation of the id, the existence check, the expiry
\* check and the reads (so every successful load, every load with a malformed id
\* and every load of an absent id) leave every file and every last-modified time
\* of both stores as they were, and a stored object keeps the last-modified time
\* its save gave it.
C20_LoadLeavesStoreUnchanged ==
    /\ [](/\ \A i \in DOMAIN saved_ds :
                i \in DOMAIN datasets => datasets[i].mtime = saved_ds[i].at
          /\ \A i \in DOMAIN saved_rs :
                i \in DOMAIN results => results[i].mtime = saved_rs[i].at
          /\ \A w \in Workers :
                pc[w] \in UnlinkingPcs =>
                    IsExpired(ld[w].t_check, ld[w].st_mtime, RESULT_TTL_SECONDS))
    /\ [][\A w \in Workers :
            /\ (CallsLoad(w) \/ (pc[w] \in ReadingPcs /\ pc'[w] # pc[w])) =>
                  UNCHANGED <<datasets, metas, results>>
            /\ (pc[w] \in UnlinkingPcs /\ pc'[w] # pc[w]) =>
                  /\ \A i \in DOMAIN datasets \ {ld[w].id} :
                        i \in DOMAIN datasets' /\ datasets'[i] = datasets[i]
                  /\ \A i \in DOMAIN metas \ {ld[w].id} :
                        i \in DOMAIN metas' /\ metas'[i] = metas[i]
                  /\ \A i \in DOMAIN results \ {ld[w].id} :
                        i \in DOMAIN results' /\ results'[i] = results[i]]_vars

\* A dataset has been loaded some time after it was saved, and its file still
\* bears the time of the save.
C20_Witness ==
    \E w \in Workers :
        /\ DatasetLoaded(w)
        /\ ld[w].id \in DOMAIN saved_ds
        /\ ld[w].id \in DOMAIN datasets
        /\ datasets[ld[w].id].mtime = saved_ds[ld[w].id].at
        /\ ld[w].t0 > saved_ds[ld[w].id].at


\* The sweep of frame f has returned: it listed its store and its loop has ended.
Returned(f) == Examined(f) /\ f.todo = {}
\* This step is thread t's: its position changes.
StepOf(t) == pc'[t] # pc[t]
\* This step is a sweep raising in thread t.
SweepFails(t) == ~SweepRaised(t) /\ SweepRaised(t)'

\* C22: last_result_cleanup_at changes only in the last step of a gate whose two
\* sweeps have both returned, and then to the time that gate sampled; the step in
\* which a sweep of a request raises, and every later step of that request, leave
\* it as it was, and the request ends without the handler: only a gate whose
\* sweeps completed can keep the next gate from sweeping again.
C22_TimestampOnlyAfterBothSweeps ==
    /\ [](\A w \in Workers :
            SweepRaised(w) =>
                /\ pc[w] = "raised"
                /\ gate[w].now - gate[w].last_run >= RESULT_CLEANUP_INTERVAL_SECONDS
                /\ ~(Returned(cr[w]) /\ Returned(cd[w])))
    /\ [][/\ last_result_cleanup_at' # last_result_cleanup_at =>
                \E w \in Workers :
                    /\ AfterSweeps(w)
                    /\ Returned(cr[w]) /\ Returned(cd[w])
                    /\ last_result_cleanup_at' = gate[w].now
          /\ \A w \in Workers :
                /\ SweepFails(w) => UNCHANGED last_result_cleanup_at
                /\ (SweepRaised(w) /\ StepOf(w)) =>
                      /\ UNCHANGED last_result_cleanup_at
                      /\ pc'[w] = "idle"]_vars

\* A sweep of a request has raised, and last_result_cleanup_at still has the
\* value the request's gate read, an interval or more before the time it sampled.
C22_Witness ==
    \E w \in Workers :
        /\ SweepRaised(w)
        /\ last_result_cleanup_at = gate[w].last_run
        /\ gate[w].now - last_result_cleanup_at >= RESULT_CLEANUP_INTERVAL_SECONDS


\* The names of the list l are pairwise distinct.
Distinct(l) == \A i, j \in 1..Len(l) : i # j => l[i] # l[j]
\* A label that is None or blank.
Blank(column) == column = None \/ Strip(column) = <<>>

\* C23: the list _normalize_columns returns has the length of its input, and its
\* names are non-empty and pairwise distinct.
C23_NormalizedDistinct ==
    nc.returned =>
        /\ Len(nc.cleaned) = Len(nc.columns)
        /\ \A i \in 1..Len(nc.cleaned) : nc.cleaned[i] # <<>>
        /\ Distinct(nc.cleaned)

\* The rest of the function's contract, which holds: the length, no empty name, a
\* blank label named from its position, and a repeated name given the number of
\* its occurrence.
NormalizedShape ==
    nc.returned =>
        /\ Len(nc.cleaned) = Len(nc.columns)
        /\ \A i \in 1..Len(nc.cleaned) :
            LET name == CleanName(nc.columns[i], i - 1)
                before == Cardinality({j \in 1..(i - 1) :
                                          CleanName(nc.columns[j], j - 1) = name})
            IN /\ nc.cleaned[i] # <<>>
               /\ Blank(nc.columns[i]) =>
                     name = <<"c", "o", "l", "u", "m", "n", "_">> \o Str(i)
               /\ nc.cleaned[i] = Suffixed(name, before)


\* Payload file i of a store is on disk and expired.
ExpiredDataset(i) ==
    i \in DOMAIN datasets /\ IsExpired(clock, datasets[i].mtime, RESULT_TTL_SECONDS)
ExpiredResult(i) ==
    i \in DOMAIN results /\ IsExpired(clock, results[i].mtime, RESULT_TTL_SECONDS)
\* No thread moves in this step and no request arrives: only time passes.
OnlyTimePasses == pc' = pc /\ served' = served

=============================================================================
